---- MODULE Spec2Model ----
(***************************************************************************)
(* Trajectory_Viewer: PointCloudAndTrajectoryVisualizer (map_pcd.py) and   *)
(* the Tk form VisualizerGUI (gui.py).                                     *)
(*                                                                         *)
(* Numbers.  Axis limits are exact integers counted in quarter units, so   *)
(* that every midpoint, radius and zoomed half-range the model computes is *)
(* an integer.  A zoom factor is a pair <<num, den>> (1.5 is <<3, 2>>).    *)
(* A float that numpy makes infinite (x / 0.0) is [fin |-> FALSE].         *)
(*                                                                         *)
(* Exceptions.  The code defines no exception class of its own: a failure  *)
(* is the Python exception that escapes, recorded as [type, stage], stage  *)
(* being the method of the visualizer it escapes from.                     *)
(***************************************************************************)
EXTENDS Integers, Sequences, FiniteSets, TLC

\* ------------------------------------------------------------------ bounds
MaxTraj == 2        \* trajectory sources, and style values, of one request
MaxFigures == 2     \* figures pyplot holds open at once
MaxKeypoints == 5   \* keypoints of an array handed to interpolate_trajectory
MaxCount == 4       \* num_interpolation_points of a direct call
NRows == 2          \* data rows of a table handed to read_csv_file
MaxLim == 1         \* axis limits range over 4 * (-MaxLim .. MaxLim)
MaxInputs == 2      \* CSV input lines of the form

\* ------------------------------------------------------- program constants
\* interpolate_trajectory(..., num_interpolation_points=100)
DefaultCount == 100

VARIABLES
    figs,       \* pyplot's registry of open figures, oldest first
    call,       \* the visualizer call in progress, or Idle
    csv_df,     \* SpecCsv: the table pd.read_csv returned
    csv_call,   \* SpecCsv: the read_csv_file call made on it
    ax,         \* SpecView: the limits of the 3D axes
    view_call,  \* SpecView: the last set_axes_equal / set_zoom call
    pcd_file_path, csv_vars, row_vars, line_color_vars,
    trajectory_point_color_vars, trajectory_point_size_vars,
    line_width_vars    \* SpecGui: the Tk variables of the form

coreVars == <<figs, call>>
csvVars  == <<csv_df, csv_call>>
viewVars == <<ax, view_call>>
guiVars  == <<pcd_file_path, csv_vars, row_vars, line_color_vars,
              trajectory_point_color_vars, trajectory_point_size_vars,
              line_width_vars>>
vars == <<coreVars, csvVars, viewVars, guiVars>>

\* ----------------------------------------------------------------- helpers
Abs(n) == IF n < 0 THEN -n ELSE n
Max2(a, b) == IF a > b THEN a ELSE b
SeqMin(s) == CHOOSE m \in {s[i] : i \in DOMAIN s} :
                 \A i \in DOMAIN s : m <= s[i]
SeqMax(s) == CHOOSE m \in {s[i] : i \in DOMAIN s} :
                 \A i \in DOMAIN s : m >= s[i]
InjectiveSeqs(S, n) ==
    {f \in [1..n -> S] : \A i, j \in 1..n : i # j => f[i] # f[j]}

NoExc == [type |-> "none", stage |-> "none"]
Exc(type, stage) == [type |-> type, stage |-> stage]

\* ---------------------------------------------------------------- ndarrays
\* np.array(list): an empty list gives a 1-D array of shape (0,), a list of
\* n >= 1 [x, y, z] lists gives a 2-D array of shape (n, 3).
NpArray(list) == [ndim |-> IF list = <<>> THEN 1 ELSE 2, data |-> list]
NoArray == [ndim |-> 0, data |-> <<>>]

\* ============================================================ read_csv_file
\* A column name is [kp, ax]: "A.x" is [kp |-> "A", ax |-> "x"], a column
\* with no axis suffix ("time") is [kp |-> "time", ax |-> ""].
Column(kp, a) == [kp |-> kp, ax |-> a]
endswith(col, a) == col.ax = a

\* df.at[row, col]: the cell of the table, named by where it lies; KeyError
\* when row is no label of the RangeIndex.
Cell(col, row) == [col |-> col, row |-> row]
ValidRow(df, row) == row \in 0..(df.nrows - 1)

RECURSIVE ReadLoop(_, _, _, _, _, _, _)
ReadLoop(df, row, x_cols, y_cols, z_cols, i, trajectory_points) ==
    IF i > Len(x_cols)
    THEN [exc |-> NoExc, val |-> NpArray(trajectory_points)]
    ELSE IF ~ValidRow(df, row)
    THEN [exc |-> Exc("KeyError", "read_csv_file"), val |-> NoArray]
    ELSE IF i > Len(y_cols) \/ i > Len(z_cols)
    THEN [exc |-> Exc("IndexError", "read_csv_file"), val |-> NoArray]
    ELSE ReadLoop(df, row, x_cols, y_cols, z_cols, i + 1,
                  Append(trajectory_points,
                         <<Cell(x_cols[i], row), Cell(y_cols[i], row),
                           Cell(z_cols[i], row)>>))

ReadDataFrame(df, row) ==
    LET x_cols == SelectSeq(df.columns, LAMBDA c : endswith(c, "x"))
        y_cols == SelectSeq(df.columns, LAMBDA c : endswith(c, "y"))
        z_cols == SelectSeq(df.columns, LAMBDA c : endswith(c, "z"))
    IN  ReadLoop(df, row, x_cols, y_cols, z_cols, 1, <<>>)

\* =================================================== interpolate_trajectory
\* interp1d(t, column, kind='cubic') rejects fewer than order + 1 = 4 data
\* points with a ValueError.
CubicMinPoints == 4

TooFewForCubicOffByOne(n) == n < CubicMinPoints - 1
TooFewForCubic(n) == n < CubicMinPoints

\* np.linspace(0, n - 1, count): count parameter values, the k-th (from 0)
\* being k * (n - 1) / (count - 1); one value, 0, when count = 1; none when
\* count = 0.  A value is kept as the fraction num / den.
linspaceNoEndpoint(stop, count) ==
    [k \in 1..count |-> [num |-> (k - 1) * stop, den |-> count]]

linspace(stop, count) ==
    IF count = 1 THEN <<[num |-> 0, den |-> 1]>>
    ELSE [k \in 1..count |-> [num |-> (k - 1) * stop, den |-> count - 1]]

\* The fitted curve evaluated at parameter t.  interp1d passes through its
\* data: at an integer parameter i the value is data point i (knot i + 1 of
\* the 1-based sequence).  Between two data points the value is the
\* spline's, which the model leaves unnamed (knot 0).
EvalSpline(t) ==
    [num |-> t.num, den |-> t.den,
     knot |-> IF t.num % t.den = 0 THEN (t.num \div t.den) + 1 ELSE 0]

interpolate_trajectory(trajectory_points, num_interpolation_points) ==
    LET n == Len(trajectory_points.data)
    IN  IF trajectory_points.ndim # 2
        THEN \* trajectory_points[:, 0] on a 1-D array
             [exc |-> Exc("IndexError", "interpolate_trajectory"),
              val |-> <<>>]
        ELSE IF TooFewForCubic(n)
        THEN [exc |-> Exc("ValueError", "interpolate_trajectory"),
              val |-> <<>>]
        ELSE IF num_interpolation_points < 0
        THEN [exc |-> Exc("ValueError", "interpolate_trajectory"),
              val |-> <<>>]
        ELSE LET t_new == linspace(n - 1, num_interpolation_points)
             IN  [exc |-> NoExc,
                  val |-> [k \in DOMAIN t_new |-> EvalSpline(t_new[k])]]

\* ================================================= set_axes_equal, set_zoom
\* ax is [x |-> <<lo, hi>>, y |-> <<lo, hi>>, z |-> <<lo, hi>>].
Fin(v) == [fin |-> TRUE, v |-> v]
Inf == [fin |-> FALSE, v |-> 0]
Range(limits) == Abs(limits[2] - limits[1])
Middle(limits) == (limits[1] + limits[2]) \div 2      \* np.mean(limits)
Max3(a, b, c) == Max2(a, Max2(b, c))

\* ax.set_xlim3d([lo, hi]) and its y, z siblings: matplotlib refuses a NaN
\* or infinite limit with a ValueError and leaves the axis as it was.
set_lim3d(r, axis, lo, hi) ==
    IF r.exc # NoExc THEN r
    ELSE IF ~lo.fin \/ ~hi.fin
    THEN [r EXCEPT !.exc = Exc("ValueError", "set_zoom")]
    ELSE [r EXCEPT !.ax[axis] = <<lo.v, hi.v>>]

Minus(m, h) == IF h.fin THEN Fin(m - h.v) ELSE Inf
Plus(m, h) == IF h.fin THEN Fin(m + h.v) ELSE Inf

PlotRadiusMin(x_range, y_range, z_range) ==
    SeqMin(<<x_range, y_range, z_range>>) \div 2

\* plot_radius = 0.5 * max([x_range, y_range, z_range])
PlotRadius(x_range, y_range, z_range) ==
    Max3(x_range, y_range, z_range) \div 2

set_axes_equal(a) ==
    LET plot_radius ==
            Fin(PlotRadius(Range(a.x), Range(a.y), Range(a.z)))
        r0 == [exc |-> NoExc, ax |-> a]
        r1 == set_lim3d(r0, "x", Minus(Middle(a.x), plot_radius),
                        Plus(Middle(a.x), plot_radius))
        r2 == set_lim3d(r1, "y", Minus(Middle(a.y), plot_radius),
                        Plus(Middle(a.y), plot_radius))
    IN  set_lim3d(r2, "z", Minus(Middle(a.z), plot_radius),
                  Plus(Middle(a.z), plot_radius))

HalfRangeTimesZoom(half_range, zoom) ==
    Fin((half_range * zoom[1]) \div zoom[2])

\* half_range /= zoom: a numpy float divided by zero is inf (a warning, no
\* exception); the half-range is never 0 here, limits being distinct.
HalfRangeOverZoom(half_range, zoom) ==
    IF zoom[1] = 0 THEN Inf
    ELSE Fin((half_range * zoom[2]) \div zoom[1])

set_zoom(a, zoom) ==
    LET x_half_range == HalfRangeOverZoom(Range(a.x) \div 2, zoom)
        y_half_range == HalfRangeOverZoom(Range(a.y) \div 2, zoom)
        z_half_range == HalfRangeOverZoom(Range(a.z) \div 2, zoom)
        r0 == [exc |-> NoExc, ax |-> a]
        r1 == set_lim3d(r0, "x", Minus(Middle(a.x), x_half_range),
                        Plus(Middle(a.x), x_half_range))
        r2 == set_lim3d(r1, "y", Minus(Middle(a.y), y_half_range),
                        Plus(Middle(a.y), y_half_range))
    IN  set_lim3d(r2, "z", Minus(Middle(a.z), z_half_range),
                  Plus(Middle(a.z), z_half_range))

\* ================================================================ the disk
\* The files the calls can name.  A path that is not listed does not exist.
KeypointNames == <<"A", "B", "C", "D", "E", "F">>
TableOf(n) ==
    [columns |-> <<Column("time", "")>> \o
                 [j \in 1..(3 * n) |->
                     Column(KeypointNames[((j - 1) \div 3) + 1],
                            <<"x", "y", "z">>[((j - 1) % 3) + 1])],
     nrows |-> 7]
CsvDisk ==
    [p \in {"traj.csv", "short.csv", "empty.csv"} |->
        CASE p = "traj.csv" -> TableOf(4)
          [] p = "short.csv" -> TableOf(3)
          [] p = "empty.csv" -> TableOf(0)]
PcdDisk == {"map.pcd"}

\* pd.read_csv raises FileNotFoundError for a path that does not exist.
read_csv_file(csv_file_path, row) ==
    IF csv_file_path \notin DOMAIN CsvDisk
    THEN [exc |-> Exc("FileNotFoundError", "read_csv_file"), val |-> NoArray]
    ELSE ReadDataFrame(CsvDisk[csv_file_path], row)

\* o3d.io.read_point_cloud warns and returns an empty cloud for a file it
\* cannot read; voxel_down_sample keeps a non-empty cloud non-empty.
read_pcd_file(path, voxel_size) ==
    [src |-> path,
     empty |-> path \notin PcdDisk,
     downsampled |-> voxel_size > 0]

\* ================================================================ visualize
\* An artist is one ax.scatter / ax.plot call on the figure's axes: what
\* was drawn (kind), for which trajectory of the request (traj, 0 for the
\* point cloud), from which file and row, with which colour and size or
\* width, and how many points it holds (n; the cloud's are not counted).
Artist(kind, traj, src, row, c, s, n) ==
    [kind |-> kind, traj |-> traj, src |-> src, row |-> row, c |-> c,
     s |-> s, n |-> n]

\* The limits matplotlib's autoscale leaves after the drawing: one nominal
\* bounding box (quarter units) stands for the data's.
AutoLimits == [x |-> <<0, 8>>, y |-> <<0, 24>>, z |-> <<-4, 4>>]

\* plt.figure(): the new figure takes the next free number.
NextNum(fs) == IF fs = <<>> THEN 1
               ELSE SeqMax([i \in DOMAIN fs |-> fs[i].num]) + 1

\* zip(self.csv_file_paths, rows, line_colors, ...) stops at the shortest.
ZipLen(req) ==
    SeqMin(<<Len(req.csv_file_paths), Len(req.rows), Len(req.line_colors),
             Len(req.trajectory_point_colors),
             Len(req.trajectory_point_sizes), Len(req.line_widths)>>)

DrawLineThenMarkers(artists, markers, line) == artists \o <<line, markers>>

\* ax.scatter(trajectory_points ...) and then ax.plot(interpolated ...)
DrawTrajectory(artists, markers, line) == artists \o <<markers, line>>

PlotTrajectory(req, i, r) ==
    LET csv_file_path == req.csv_file_paths[i]
        trajectory_points == read_csv_file(csv_file_path, req.rows[i])
        interpolated_trajectory ==
            interpolate_trajectory(trajectory_points.val, DefaultCount)
    IN  IF trajectory_points.exc # NoExc
        THEN [r EXCEPT !.exc = trajectory_points.exc]
        ELSE IF interpolated_trajectory.exc # NoExc
        THEN [r EXCEPT !.exc = interpolated_trajectory.exc]
        ELSE [r EXCEPT !.artists =
                DrawTrajectory(r.artists,
                    Artist("markers", i, csv_file_path, req.rows[i],
                           req.trajectory_point_colors[i],
                           req.trajectory_point_sizes[i],
                           Len(trajectory_points.val.data)),
                    Artist("line", i, csv_file_path, req.rows[i],
                           req.line_colors[i], req.line_widths[i],
                           Len(interpolated_trajectory.val)))]

RECURSIVE PlotLoop(_, _, _)
PlotLoop(req, i, r) ==
    IF i > ZipLen(req) \/ r.exc # NoExc THEN r
    ELSE PlotLoop(req, i + 1, PlotTrajectory(req, i, r))

PlotCloud(req, point_cloud, r) ==
    IF req.point_color = "height_gradient" /\ point_cloud.empty
    THEN \* np.min of an empty array
         [r EXCEPT !.exc = Exc("ValueError", "visualize")]
    ELSE [r EXCEPT !.artists =
            <<Artist("cloud", 0, point_cloud.src, 0, req.point_color, 0,
                     0)>>]

ViewTransform(req, r) ==
    IF r.exc # NoExc THEN r
    ELSE LET eq == set_axes_equal(r.lims)
             zm == set_zoom(eq.ax, req.zoom)
         IN  IF zm.exc # NoExc
             THEN [r EXCEPT !.exc = zm.exc, !.lims = zm.ax]
             ELSE [r EXCEPT !.lims = zm.ax]

\* visualize up to plt.show() or the exception that ends it: the figure it
\* made, with what was drawn on it, and the exception.
visualize(fs, req) ==
    LET point_cloud == read_pcd_file(req.pcd_file_path, req.voxel_size)
        r0 == [exc |-> NoExc, artists |-> <<>>, lims |-> AutoLimits]
        r1 == PlotCloud(req, point_cloud, r0)
        r2 == PlotLoop(req, 1, r1)
        r3 == ViewTransform(req, r2)
    IN  [exc |-> r3.exc,
         fig |-> [num |-> NextNum(fs), artists |-> r3.artists,
                  lims |-> r3.lims]]

Idle == [op |-> "none"]

\* plt.show() displays every figure pyplot holds, not only the newest.
VisualizeCall(req) ==
    LET v == visualize(figs, req)
    IN  /\ figs' = Append(figs, v.fig)
        /\ call' = [op |-> "visualize", req |-> req, fig |-> v.fig.num,
                    status |-> IF v.exc = NoExc THEN "shown" ELSE "raised",
                    exc |-> v.exc,
                    shown |-> IF v.exc = NoExc THEN figs' ELSE <<>>]

\* ------------------------------------------------- Spec: calls of the class
\* The values a caller puts at position i of the per-trajectory lists; the
\* first are visualize's own defaults (rows=[6], 'r', 'b', 5, 2).
ColorNames == <<"r", "b", "g", "k", "m", "c", "y">>
RowAt(i) == IF i = 1 THEN 6 ELSE i
LineColorAt(i) == ColorNames[i]
PointColorAt(i) == ColorNames[i + 1]
PointSizeAt(i) == 4 + i
LineWidthAt(i) == 1 + i
StyleLists == {"rows", "line_colors", "trajectory_point_colors",
               "trajectory_point_sizes", "line_widths"}
LenOf(list, short, n) == IF list = short THEN n ELSE MaxTraj

\* A request: up to MaxTraj sources; `short` names the one list (if any)
\* that is cut to n values, the others holding MaxTraj.
Request(pcd, paths, color, zoom, short, n) ==
    [pcd_file_path |-> pcd, csv_file_paths |-> paths, voxel_size |-> 0,
     point_color |-> color, zoom |-> zoom,
     rows |-> [i \in 1..LenOf("rows", short, n) |-> RowAt(i)],
     line_colors |->
         [i \in 1..LenOf("line_colors", short, n) |-> LineColorAt(i)],
     trajectory_point_colors |->
         [i \in 1..LenOf("trajectory_point_colors", short, n) |->
             PointColorAt(i)],
     trajectory_point_sizes |->
         [i \in 1..LenOf("trajectory_point_sizes", short, n) |->
             PointSizeAt(i)],
     line_widths |->
         [i \in 1..LenOf("line_widths", short, n) |-> LineWidthAt(i)]]

PathSeqs == UNION {[1..k -> DOMAIN CsvDisk] : k \in 0..MaxTraj}
Requests ==
    {Request("map.pcd", paths, "height_gradient", zoom, short, n) :
        paths \in PathSeqs, zoom \in {<<1, 1>>, <<0, 1>>},
        short \in StyleLists, n \in 0..MaxTraj}

\* The arrays a caller hands to interpolate_trajectory: shape (n, 3) for
\* n in 0..MaxKeypoints, and the 1-D empty array.
PointsOf(n) ==
    [i \in 1..n |-> <<Cell(Column(KeypointNames[i], "x"), 0),
                      Cell(Column(KeypointNames[i], "y"), 0),
                      Cell(Column(KeypointNames[i], "z"), 0)>>]
Arrays == {[ndim |-> 2, data |-> PointsOf(n)] : n \in 0..MaxKeypoints}
              \cup {NpArray(<<>>)}

CoreInit == figs = <<>> /\ call = Idle
OtherInitCore ==
    /\ csv_df = [columns |-> <<>>, nrows |-> 0] /\ csv_call = Idle
    /\ ax = AutoLimits /\ view_call = Idle
    /\ pcd_file_path = "" /\ csv_vars = <<>> /\ row_vars = <<>>
    /\ line_color_vars = <<>> /\ trajectory_point_color_vars = <<>>
    /\ trajectory_point_size_vars = <<>> /\ line_width_vars = <<>>

Init == CoreInit /\ OtherInitCore

Visualize ==
    /\ call = Idle
    /\ Len(figs) < MaxFigures
    /\ \E req \in Requests : VisualizeCall(req)
    /\ UNCHANGED <<csvVars, viewVars, guiVars>>

\* The viewer closes the windows: every displayed figure is destroyed,
\* plt.show() returns and visualize with it.
ShowReturns ==
    /\ call.op = "visualize" /\ call.status = "shown"
    /\ figs' = <<>>
    /\ call' = Idle
    /\ UNCHANGED <<csvVars, viewVars, guiVars>>

\* The exception leaves visualize; the figure it made stays open.
VisualizeRaises ==
    /\ call.op = "visualize" /\ call.status = "raised"
    /\ call' = Idle
    /\ UNCHANGED <<figs, csvVars, viewVars, guiVars>>

Interpolate ==
    /\ call = Idle
    /\ \E trajectory_points \in Arrays, count \in -1..MaxCount :
          call' = [op |-> "interpolate_trajectory",
                   points |-> trajectory_points, count |-> count,
                   out |-> interpolate_trajectory(trajectory_points, count)]
    /\ UNCHANGED <<figs, csvVars, viewVars, guiVars>>

InterpolateReturns ==
    /\ call.op = "interpolate_trajectory"
    /\ call' = Idle
    /\ UNCHANGED <<figs, csvVars, viewVars, guiVars>>

Next == \/ Visualize \/ ShowReturns \/ VisualizeRaises
        \/ Interpolate \/ InterpolateReturns

Spec == Init /\ [][Next]_vars

\* ------------------------------------------------------- claims under Spec
Rendering == call.op = "visualize"
Presented == Rendering /\ call.status = "shown"
Aborted == Rendering /\ call.status = "raised"
\* The figure the call in progress made.
OwnFigure == figs[CHOOSE i \in DOMAIN figs : figs[i].num = call.fig]
StyleShort(req) == ZipLen(req) < Len(req.csv_file_paths)
Drawn(f, kind, i) ==
    \E k \in DOMAIN f.artists :
        f.artists[k].kind = kind /\ f.artists[k].traj = i

\* C2: a render asked for with fewer values in some per-trajectory list than
\* there are trajectory sources fails; it presents nothing.
C2_ShortStyleListFails == (Rendering /\ StyleShort(call.req)) => Aborted

\* C3: a render ends either with the presented scene holding the point
\* cloud and every trajectory source of its request, or aborted with an
\* error and nothing presented.
C3_AllOrNothing ==
    Rendering =>
        \/ /\ Presented
           /\ Drawn(OwnFigure, "cloud", 0)
           /\ \A i \in DOMAIN call.req.csv_file_paths :
                 Drawn(OwnFigure, "markers", i) /\ Drawn(OwnFigure, "line", i)
        \/ Aborted /\ call.exc # NoExc /\ call.shown = <<>>

\* C4: what a render presents was drawn for that render's own request:
\* no figure of an earlier call, aborted or not, is among what is shown.
C4_OnlyOwnItems ==
    Presented => \A k \in DOMAIN call.shown : call.shown[k].num = call.fig

\* A render that gets as far as extracting a trajectory row of fewer than 4
\* keypoints: the cloud was drawn and every row before it was long enough.
CloudDrawn(req) ==
    ~(req.point_color = "height_gradient"
          /\ read_pcd_file(req.pcd_file_path, req.voxel_size).empty)
Extracted(req, i) == read_csv_file(req.csv_file_paths[i], req.rows[i])
ExtractsShortRow(req) ==
    /\ CloudDrawn(req)
    /\ \E i \in 1..ZipLen(req) :
          /\ Extracted(req, i).exc = NoExc
          /\ Len(Extracted(req, i).val.data) < 4
          /\ \A j \in 1..(i - 1) :
                /\ Extracted(req, j).exc = NoExc
                /\ Len(Extracted(req, j).val.data) >= 4

\* C5: interpolate_trajectory raises for every keypoint sequence of length
\* 0, 1, 2 or 3, and a render that extracts a trajectory row of fewer than
\* 4 keypoints aborts with the error interpolate_trajectory raised.
C5_TooFewPointsRaise ==
    /\ (call.op = "interpolate_trajectory" /\ Len(call.points.data) < 4)
          => call.out.exc.stage = "interpolate_trajectory"
    /\ (Rendering /\ ExtractsShortRow(call.req))
          => Aborted /\ call.exc.stage = "interpolate_trajectory"
C5_Witness ==
    /\ Rendering /\ ExtractsShortRow(call.req)
    /\ call.exc.type = "ValueError"
    /\ Len(OwnFigure.artists) = 3

\* A direct call with n >= 4 keypoints and a count that is a number of
\* points.
Interpolated ==
    /\ call.op = "interpolate_trajectory"
    /\ call.points.ndim = 2 /\ Len(call.points.data) >= 4
    /\ call.count >= 0

\* C6 as claimed: for n >= 4 keypoints and every count, exactly count
\* points come back, the first the first keypoint, the last the last.
C6_CountAndEndpoints ==
    Interpolated =>
        /\ call.out.exc = NoExc
        /\ Len(call.out.val) = call.count
        /\ call.count >= 1 =>
              /\ call.out.val[1].knot = 1
              /\ call.out.val[call.count].knot = Len(call.points.data)

\* C6 amended: exactly count points come back, the k-th sampled at
\* parameter (k - 1) * (n - 1) / (count - 1); for count >= 2 the first is
\* the first keypoint and the last the last keypoint; for count = 1 the one
\* point is the first keypoint.
C6_CountAndEndpointsFromTwo ==
    Interpolated =>
        /\ call.out.exc = NoExc
        /\ Len(call.out.val) = call.count
        /\ call.count >= 1 => call.out.val[1].knot = 1
        /\ call.count >= 2 =>
              /\ \A k \in 1..call.count :
                    /\ call.out.val[k].num
                          = (k - 1) * (Len(call.points.data) - 1)
                    /\ call.out.val[k].den = call.count - 1
              /\ call.out.val[call.count].knot = Len(call.points.data)
C6_Witness ==
    /\ Interpolated /\ call.count >= 3
    /\ Len(call.points.data) > 4
    /\ call.out.val[2].knot = 0

\* C7: in a presented figure the point cloud is drawn first, then for each
\* trajectory in request order its markers and then its line.
C7_DrawOrder ==
    Presented =>
        LET a == OwnFigure.artists
        IN  /\ Len(a) % 2 = 1
            /\ a[1].kind = "cloud"
            /\ \A j \in 1..((Len(a) - 1) \div 2) :
                  /\ a[2 * j].kind = "markers" /\ a[2 * j].traj = j
                  /\ a[2 * j].src = call.req.csv_file_paths[j]
                  /\ a[2 * j].n = Len(Extracted(call.req, j).val.data)
                  /\ a[2 * j + 1].kind = "line" /\ a[2 * j + 1].traj = j
                  /\ a[2 * j + 1].src = call.req.csv_file_paths[j]
                  /\ a[2 * j + 1].n = DefaultCount
C7_Witness == Presented /\ Len(OwnFigure.artists) = 5

\* ============================================== SpecCsv: read_csv_file alone
\* Tables whose header holds the '.x', '.y', '.z' columns of keypoints A and
\* B in any physical order, or all but one of them.
AxisColumns == {Column(kp, a) : kp \in {"A", "B"}, a \in {"x", "y", "z"}}
Headers == InjectiveSeqs(AxisColumns, 6) \cup InjectiveSeqs(AxisColumns, 5)

CsvInit ==
    /\ csv_df \in {[columns |-> h, nrows |-> NRows] : h \in Headers}
    /\ csv_call = Idle
    /\ figs = <<>> /\ call = Idle
    /\ ax = AutoLimits /\ view_call = Idle
    /\ pcd_file_path = "" /\ csv_vars = <<>> /\ row_vars = <<>>
    /\ line_color_vars = <<>> /\ trajectory_point_color_vars = <<>>
    /\ trajectory_point_size_vars = <<>> /\ line_width_vars = <<>>

ReadCsv ==
    /\ csv_call = Idle
    /\ \E row \in -1..NRows :
          csv_call' = [op |-> "read_csv_file", row |-> row,
                       out |-> ReadDataFrame(csv_df, row)]
    /\ UNCHANGED <<csv_df, coreVars, viewVars, guiVars>>

ReadCsvReturns ==
    /\ csv_call.op = "read_csv_file"
    /\ csv_call' = Idle
    /\ UNCHANGED <<csv_df, coreVars, viewVars, guiVars>>

CsvNext == ReadCsv \/ ReadCsvReturns
SpecCsv == CsvInit /\ [][CsvNext]_vars

\* The keypoints of a header, in the order their '.x' column appears.
XColumns(df) == SelectSeq(df.columns, LAMBDA c : c.ax = "x")
HasColumn(df, col) == \E j \in DOMAIN df.columns : df.columns[j] = col
CompleteHeader(df) ==
    \A j \in DOMAIN df.columns :
        /\ HasColumn(df, Column(df.columns[j].kp, "x"))
        /\ HasColumn(df, Column(df.columns[j].kp, "y"))
        /\ HasColumn(df, Column(df.columns[j].kp, "z"))

\* C1: for a header that gives every keypoint its three columns and a valid
\* row, read_csv_file returns one point per keypoint in the order of the
\* '.x' columns, each point read from the '.x', '.y', '.z' columns of that
\* keypoint's own name, whatever the physical order of the columns.
C1_PointsByKeypointName ==
    (/\ csv_call.op = "read_csv_file"
     /\ ValidRow(csv_df, csv_call.row)
     /\ CompleteHeader(csv_df))
    => /\ csv_call.out.exc = NoExc
       /\ Len(csv_call.out.val.data) = Len(XColumns(csv_df))
       /\ \A i \in DOMAIN XColumns(csv_df) :
             LET kp == XColumns(csv_df)[i].kp
             IN  csv_call.out.val.data[i]
                    = <<Cell(Column(kp, "x"), csv_call.row),
                        Cell(Column(kp, "y"), csv_call.row),
                        Cell(Column(kp, "z"), csv_call.row)>>

\* ================================= SpecView: set_axes_equal, set_zoom alone
\* Axes limits as matplotlib holds them: the two ends of an axis differ
\* (it widens a singular interval), and an axis may be inverted.
LimValues == {4 * k : k \in -MaxLim..MaxLim}
Limits == {<<lo, hi>> : lo \in LimValues, hi \in LimValues} \
              {<<v, v>> : v \in LimValues}
Zooms == {<<0, 1>>, <<1, 1>>, <<2, 1>>, <<1, 2>>, <<-1, 1>>}

ViewInit ==
    /\ ax \in [x : Limits, y : Limits, z : Limits]
    /\ view_call = Idle
    /\ figs = <<>> /\ call = Idle
    /\ csv_df = [columns |-> <<>>, nrows |-> 0] /\ csv_call = Idle
    /\ pcd_file_path = "" /\ csv_vars = <<>> /\ row_vars = <<>>
    /\ line_color_vars = <<>> /\ trajectory_point_color_vars = <<>>
    /\ trajectory_point_size_vars = <<>> /\ line_width_vars = <<>>

\* visualize applies set_axes_equal once, then set_zoom once.
SetAxesEqual ==
    /\ view_call.op = "none"
    /\ LET r == set_axes_equal(ax)
       IN  /\ ax' = r.ax
           /\ view_call' = [op |-> "set_axes_equal", before |-> ax,
                            zoom |-> <<1, 1>>, exc |-> r.exc]
    /\ UNCHANGED <<coreVars, csvVars, guiVars>>

SetZoom ==
    /\ view_call.op \in {"none", "set_axes_equal"}
    /\ \E zoom \in Zooms :
          LET r == set_zoom(ax, zoom)
          IN  /\ ax' = r.ax
              /\ view_call' = [op |-> "set_zoom", before |-> ax,
                               zoom |-> zoom, exc |-> r.exc]
    /\ UNCHANGED <<coreVars, csvVars, guiVars>>

ViewNext == SetAxesEqual \/ SetZoom
SpecView == ViewInit /\ [][ViewNext]_vars

\* C8: set_axes_equal leaves the three ranges equal to the largest of the
\* three ranges it found and every axis centred where it was.
C8_EqualRangesSameMiddles ==
    view_call.op = "set_axes_equal" =>
        LET b == view_call.before
            largest == Max3(Range(b.x), Range(b.y), Range(b.z))
        IN  /\ view_call.exc = NoExc
            /\ Range(ax.x) = largest
            /\ Range(ax.y) = largest
            /\ Range(ax.z) = largest
            /\ ax.x[1] + ax.x[2] = b.x[1] + b.x[2]
            /\ ax.y[1] + ax.y[2] = b.y[1] + b.y[2]
            /\ ax.z[1] + ax.z[2] = b.z[1] + b.z[2]
C8_Witness ==
    /\ view_call.op = "set_axes_equal"
    /\ Range(view_call.before.x) < Range(view_call.before.z)
    /\ Range(view_call.before.y) < Range(view_call.before.z)
    /\ view_call.before.x[1] > view_call.before.x[2]
    /\ ax.x # view_call.before.x

\* C9: set_zoom with zoom factor 0 fails and leaves the limits as they
\* were; no limit computed from the division by zero is set.
C9_ZeroZoomFails ==
    (view_call.op = "set_zoom" /\ view_call.zoom[1] = 0) =>
        /\ view_call.exc.stage = "set_zoom"
        /\ ax = view_call.before
C9_Witness ==
    /\ view_call.op = "set_zoom" /\ view_call.zoom[1] = 0
    /\ view_call.exc.type = "ValueError"

\* ===================================================== SpecGui: the Tk form
\* What the file dialogs and the entries can hold: "" is a cancelled dialog
\* or an entry left empty.
PcdChoices == {"", "map.pcd", "nofile.pcd"}
CsvChoices == {"", "traj.csv"}
RowChoices == {6, 3}
LineColorChoices == {"r", "b"}
PointColorChoices == {"g", "k"}
PointSizeChoices == {10, 5}
LineWidthChoices == {3, 1}

\* __init__: an empty PCD path and the first CSV input line.
GuiInit ==
    /\ pcd_file_path = ""
    /\ csv_vars = <<"">> /\ row_vars = <<6>>
    /\ line_color_vars = <<"r">> /\ trajectory_point_color_vars = <<"g">>
    /\ trajectory_point_size_vars = <<10>> /\ line_width_vars = <<3>>
    /\ figs = <<>> /\ call = Idle
    /\ csv_df = [columns |-> <<>>, nrows |-> 0] /\ csv_call = Idle
    /\ ax = AutoLimits /\ view_call = Idle

styleVars == <<row_vars, line_color_vars, trajectory_point_color_vars,
               trajectory_point_size_vars, line_width_vars>>

select_pcd_file ==
    /\ call = Idle
    /\ \E file_path \in PcdChoices : pcd_file_path' = file_path
    /\ UNCHANGED <<csv_vars, styleVars, coreVars, csvVars, viewVars>>

\* The button of input line `index`, or typing into its path entry.
select_csv_file ==
    /\ call = Idle
    /\ \E index \in DOMAIN csv_vars, file_path \in CsvChoices :
          csv_vars' = [csv_vars EXCEPT ![index] = file_path]
    /\ UNCHANGED <<pcd_file_path, styleVars, coreVars, csvVars, viewVars>>

EditRow ==
    /\ call = Idle
    /\ \E i \in DOMAIN row_vars, v \in RowChoices :
          row_vars' = [row_vars EXCEPT ![i] = v]
    /\ UNCHANGED <<pcd_file_path, csv_vars, line_color_vars,
                   trajectory_point_color_vars, trajectory_point_size_vars,
                   line_width_vars, coreVars, csvVars, viewVars>>

EditLineColor ==
    /\ call = Idle
    /\ \E i \in DOMAIN line_color_vars, v \in LineColorChoices :
          line_color_vars' = [line_color_vars EXCEPT ![i] = v]
    /\ UNCHANGED <<pcd_file_path, csv_vars, row_vars,
                   trajectory_point_color_vars, trajectory_point_size_vars,
                   line_width_vars, coreVars, csvVars, viewVars>>

EditPointColor ==
    /\ call = Idle
    /\ \E i \in DOMAIN trajectory_point_color_vars,
          v \in PointColorChoices :
          trajectory_point_color_vars' =
              [trajectory_point_color_vars EXCEPT ![i] = v]
    /\ UNCHANGED <<pcd_file_path, csv_vars, row_vars, line_color_vars,
                   trajectory_point_size_vars, line_width_vars,
                   coreVars, csvVars, viewVars>>

EditPointSize ==
    /\ call = Idle
    /\ \E i \in DOMAIN trajectory_point_size_vars, v \in PointSizeChoices :
          trajectory_point_size_vars' =
              [trajectory_point_size_vars EXCEPT ![i] = v]
    /\ UNCHANGED <<pcd_file_path, csv_vars, row_vars, line_color_vars,
                   trajectory_point_color_vars, line_width_vars,
                   coreVars, csvVars, viewVars>>

EditLineWidth ==
    /\ call = Idle
    /\ \E i \in DOMAIN line_width_vars, v \in LineWidthChoices :
          line_width_vars' = [line_width_vars EXCEPT ![i] = v]
    /\ UNCHANGED <<pcd_file_path, csv_vars, row_vars, line_color_vars,
                   trajectory_point_color_vars, trajectory_point_size_vars,
                   coreVars, csvVars, viewVars>>

add_csv_input ==
    /\ call = Idle
    /\ Len(csv_vars) < MaxInputs
    /\ csv_vars' = Append(csv_vars, "")
    /\ row_vars' = Append(row_vars, 6)
    /\ line_color_vars' = Append(line_color_vars, "r")
    /\ trajectory_point_color_vars' =
           Append(trajectory_point_color_vars, "g")
    /\ trajectory_point_size_vars' = Append(trajectory_point_size_vars, 10)
    /\ line_width_vars' = Append(line_width_vars, 3)
    /\ UNCHANGED <<pcd_file_path, coreVars, csvVars, viewVars>>

Pop(s) == SubSeq(s, 1, Len(s) - 1)

remove_csv_input ==
    /\ call = Idle
    /\ csv_vars # <<>>
    /\ csv_vars' = Pop(csv_vars)
    /\ row_vars' = Pop(row_vars)
    /\ line_color_vars' = Pop(line_color_vars)
    /\ trajectory_point_color_vars' = Pop(trajectory_point_color_vars)
    /\ trajectory_point_size_vars' = Pop(trajectory_point_size_vars)
    /\ line_width_vars' = Pop(line_width_vars)
    /\ UNCHANGED <<pcd_file_path, coreVars, csvVars, viewVars>>

\* The request VisualizerGUI.visualize passes on: the non-empty paths, and
\* every line's row and style values.  voxel_size 0.05 is held in
\* hundredths; alpha, elev and azim play no part in the model.
GuiRequest ==
    [pcd_file_path |-> pcd_file_path,
     csv_file_paths |-> SelectSeq(csv_vars, LAMBDA p : p # ""),
     voxel_size |-> 5, point_color |-> "height_gradient", zoom |-> <<3, 2>>,
     rows |-> row_vars, line_colors |-> line_color_vars,
     trajectory_point_colors |-> trajectory_point_color_vars,
     trajectory_point_sizes |-> trajectory_point_size_vars,
     line_widths |-> line_width_vars]

\* The Visualize button.  With no PCD path or no CSV path the handler
\* returns having done nothing.
gui_visualize ==
    /\ call = Idle
    /\ Len(figs) < MaxFigures
    /\ IF GuiRequest.pcd_file_path # "" /\ GuiRequest.csv_file_paths # <<>>
       THEN VisualizeCall(GuiRequest)
       ELSE call' = [op |-> "skipped"] /\ UNCHANGED figs
    /\ UNCHANGED <<guiVars, csvVars, viewVars>>

SkippedReturns ==
    /\ call.op = "skipped"
    /\ call' = Idle
    /\ UNCHANGED <<figs, guiVars, csvVars, viewVars>>

GuiNext ==
    \/ select_pcd_file \/ select_csv_file \/ EditRow \/ EditLineColor
    \/ EditPointColor \/ EditPointSize \/ EditLineWidth
    \/ add_csv_input \/ remove_csv_input
    \/ gui_visualize \/ SkippedReturns \/ ShowReturns \/ VisualizeRaises
SpecGui == GuiInit /\ [][GuiNext]_vars

\* The form line the k-th non-empty path stands on.
NonEmptyUpTo(j) == Cardinality({i \in 1..j : csv_vars[i] # ""})
LineOf(k) ==
    CHOOSE j \in DOMAIN csv_vars : csv_vars[j] # "" /\ NonEmptyUpTo(j) = k

\* C10: the six per-trajectory lists of the form have one length, and the
\* request Visualize passes pairs every non-empty path with the row index
\* and the style values of the form line that path stands on.
C10_FormLinesPaired ==
    /\ Len(row_vars) = Len(csv_vars)
    /\ Len(line_color_vars) = Len(csv_vars)
    /\ Len(trajectory_point_color_vars) = Len(csv_vars)
    /\ Len(trajectory_point_size_vars) = Len(csv_vars)
    /\ Len(line_width_vars) = Len(csv_vars)
    /\ Rendering =>
          \A k \in DOMAIN call.req.csv_file_paths :
              /\ call.req.csv_file_paths[k] = csv_vars[LineOf(k)]
              /\ call.req.rows[k] = row_vars[LineOf(k)]
              /\ call.req.line_colors[k] = line_color_vars[LineOf(k)]
              /\ call.req.trajectory_point_colors[k]
                    = trajectory_point_color_vars[LineOf(k)]
              /\ call.req.trajectory_point_sizes[k]
                    = trajectory_point_size_vars[LineOf(k)]
              /\ call.req.line_widths[k] = line_width_vars[LineOf(k)]

====
